---- MODULE Spec2Model ----
(***************************************************************************)
(* Model of the bug_hunter agents:                                         *)
(*   src/agents/context_retrieval_agent.py  ContextRetrievalAgent          *)
(*   src/agents/code_parser_agent.py        CodeParserAgent.parse_code     *)
(*                                                                         *)
(* Python str values are TLA+ strings (Len, \o, SubSeq, Head, Tail act on  *)
(* characters).  A Python dict is a function from its keys; a key the dict *)
(* does not have is a key outside DOMAIN.  A relevance score is an integer *)
(* number of thousandths (900 is 0.900).                                   *)
(***************************************************************************)
EXTENDS Integers, Sequences, FiniteSets, TLC

VARIABLES
    bug_info,        \* argument of retrieve_bug_context / _generate_search_queries
    hashSeed,        \* the interpreter's per-process string-hash seed
    pc,              \* position of the retrieval agent
    kw,              \* outcome of the keyword-extraction call
    queries,         \* local queries of retrieve_bug_context
    searched,        \* queries handed to mcp_client.search_documents_sync, in call order
    outcomes,        \* outcome of each such call, in call order
    all_results,     \* local all_results; argument results of _deduplicate_results
    unique_results,  \* local unique_results; result of _deduplicate_results
    context,         \* local context; result of _synthesize_context
    ret,             \* value returned by retrieve_bug_context
    code,            \* argument code of parse_code
    response,        \* text returned by invoke_with_template inside parse_code
    ppc,             \* position of the parser agent
    parsed           \* value returned by parse_code

vars == <<bug_info, hashSeed, pc, kw, queries, searched, outcomes, all_results,
          unique_results, context, ret, code, response, ppc, parsed>>

retrievalVars == <<bug_info, hashSeed, pc, kw, queries, searched, outcomes,
                   all_results, unique_results, context, ret>>

parserVars == <<code, response, ppc, parsed>>

(***************************************************************************)
(* Bounds of the model.                                                    *)
(***************************************************************************)
MaxBugs == 4         \* longest bugs_found list given to the query planner
MaxHits == 3         \* most documents one search call returns
MaxResults == 4      \* longest list given directly to _deduplicate_results

(***************************************************************************)
(* Constants of the program.                                               *)
(***************************************************************************)
MaxBugsConsidered == 3     \* bugs_found[:3]
DescriptionCap == 100      \* description[:100]
MaxQueries == 5            \* queries[:5]
FingerprintLen == 200      \* text[:200]
MaxReturnedDocs == 5       \* unique_results[:5]
SynthesisDocs == 3         \* results[:3]
SynthesisChars == 300      \* text[:300]

\* hash() yields integers of a fixed width; the seeds a process may start with
HashMod == 64

HashSeeds == {1, 3}

(***************************************************************************)
(* Python built-ins.                                                       *)
(***************************************************************************)
Min(a, b) == IF a < b THEN a ELSE b

\* s[:k] for a str or a list
Take(s, k) == SubSeq(s, 1, Min(k, Len(s)))

\* s[k:] for a str or a list
Drop(s, k) == SubSeq(s, Min(k, Len(s)) + 1, Len(s))

\* d.get(key, default)
Get(d, key, default) == IF key \in DOMAIN d THEN d[key] ELSE default

StartsWith(s, p) == Len(s) >= Len(p) /\ SubSeq(s, 1, Len(p)) = p

EndsWith(s, p) == Len(s) >= Len(p) /\ SubSeq(s, Len(s) - Len(p) + 1, Len(s)) = p

IsSpace(c) == c \in {" ", "\n", "\t", "\r"}

RECURSIVE LStrip(_)
LStrip(s) == IF s # "" /\ IsSpace(Head(s)) THEN LStrip(Tail(s)) ELSE s

RECURSIVE RStrip(_)
RStrip(s) ==
    IF s # "" /\ IsSpace(SubSeq(s, Len(s), Len(s)))
    THEN RStrip(SubSeq(s, 1, Len(s) - 1))
    ELSE s

\* s.strip()
Strip(s) == RStrip(LStrip(s))

\* the string made of n copies of c
RECURSIVE Rep(_, _)
Rep(c, n) ==
    IF n = 0 THEN ""
    ELSE IF n % 2 = 0 THEN LET half == Rep(c, n \div 2) IN half \o half
    ELSE c \o Rep(c, n - 1)

(***************************************************************************)
(* _generate_search_queries                                                *)
(***************************************************************************)
GenericQuery == "C++ common bugs"

\* the queries one bug appends (body of the for loop)
BugQueries(bug) ==
    LET bug_type == Get(bug, "bug_type", "")
        description == Get(bug, "description", "")
    IN  (IF bug_type # ""
         THEN <<"C++ " \o bug_type, bug_type \o " bug example">>
         ELSE <<>>)
        \o
        (IF description # "" THEN <<Take(description, DescriptionCap)>> ELSE <<>>)

RECURSIVE BugLoop(_, _)
BugLoop(bugs, acc) ==
    IF bugs = <<>> THEN acc ELSE BugLoop(Tail(bugs), acc \o BugQueries(Head(bugs)))

\* the list queries before the final slice; k is the keyword call's outcome
CandidateQueries(info, k) ==
    LET bugs_found == Get(info, "bugs_found", <<>>)
        fromBugs == BugLoop(Take(bugs_found, MaxBugsConsidered), <<>>)
        withGeneric == fromBugs \o <<GenericQuery>>
    IN  IF k.ok THEN withGeneric \o <<Strip(k.text)>> ELSE withGeneric

GenerateSearchQueriesNoGenericSlot(info, k) ==
    LET bugs_found == Get(info, "bugs_found", <<>>)
        fromBugs == BugLoop(Take(bugs_found, MaxBugsConsidered), <<>>)
        sliced == Take(fromBugs, MaxQueries - 1) \o <<GenericQuery>>
    IN  Take(IF k.ok THEN sliced \o <<Strip(k.text)>> ELSE sliced, MaxQueries)

GenerateSearchQueries(info, k) == Take(CandidateQueries(info, k), MaxQueries)

(***************************************************************************)
(* Inputs.                                                                 *)
(***************************************************************************)
LongDescription == Rep("d", 120)

Bugs ==
    { [bug_type |-> "use-after-free",
       description |-> "pointer freed then dereferenced in loop"],
      [bug_type |-> "memory leak"],
      [description |-> LongDescription],
      [bug_type |-> "", description |-> ""] }

RECURSIVE SeqsUpTo(_, _)
SeqsUpTo(S, n) ==
    IF n = 0 THEN {<<>>}
    ELSE LET shorter == SeqsUpTo(S, n - 1)
         IN  shorter \cup {Append(s, x) : s \in {t \in shorter : Len(t) = n - 1}, x \in S}

\* bug_info with a bugs_found list, and one without the key
BugInfos(n) ==
    {[bugs_found |-> b] : b \in SeqsUpTo(Bugs, n)} \cup {[summary |-> "no analysis"]}

\* what invoke_with_template does in _generate_search_queries: raises, or returns
\* some text; the text is the language model's and is not a function of code[:500]
KeywordOutcomes ==
    {[ok |-> FALSE, text |-> ""]} \cup
    {[ok |-> TRUE, text |-> t] : t \in {"mutex, lock", " raii, smart pointer\n", "  \n", ""}}

NoKeyword == [ok |-> FALSE, text |-> ""]

(***************************************************************************)
(* Query planning on its own: _generate_search_queries(code, bug_info).    *)
(***************************************************************************)
IdleParser == code = "" /\ response = "" /\ ppc = "idle" /\ parsed = <<>>

InitPlan ==
    /\ bug_info \in BugInfos(MaxBugs)
    /\ hashSeed \in HashSeeds
    /\ pc = "plan"
    /\ kw = NoKeyword
    /\ queries = <<>>
    /\ searched = <<>>
    /\ outcomes = <<>>
    /\ all_results = <<>>
    /\ unique_results = <<>>
    /\ context = ""
    /\ ret = <<>>
    /\ IdleParser

\* lines 43, 81-115: the planner runs; the keyword call raises or returns some text
Plan ==
    /\ pc = "plan"
    /\ \E k \in KeywordOutcomes :
        /\ kw' = k
        /\ queries' = GenerateSearchQueries(bug_info, k)
    /\ pc' = "search"
    /\ UNCHANGED <<bug_info, hashSeed, searched, outcomes, all_results,
                   unique_results, context, ret>>
    /\ UNCHANGED parserVars

NextPlan == Plan

SpecPlan == InitPlan /\ [][NextPlan]_vars

(***************************************************************************)
(* Documents of the index.                                                 *)
(***************************************************************************)
DocUafA == [text |-> Rep("a", 200) \o Rep("b", 150), score |-> 900]

DocUafB == [text |-> Rep("a", 200) \o Rep("c", 50), score |-> 950]

DocDouble == [text |-> "double free", score |-> 874]

DocNull == [text |-> "null dereference"]

DocNoText == [score |-> 500]

DocOverflow == [text |-> "buffer overflow", score |-> -500]

DocLeak == [text |-> "memory leak", score |-> 874]

DocEmpty == [text |-> "", score |-> 100]

DocRace == [text |-> "data race", score |-> 946]

Corpus ==
    <<DocUafA, DocDouble, DocUafB, DocNull, DocNoText, DocOverflow, DocLeak,
      DocEmpty, DocRace>>

\* the h hits the index returns for the i-th query: consecutive documents of the
\* corpus, the windows of neighbouring queries overlapping
Window(i, h) ==
    [j \in 1..h |-> Corpus[((2 * (i - 1) + (j - 1)) % Len(Corpus)) + 1]]

(***************************************************************************)
(* hash(str): a seeded many-to-one function from strings to integers of a  *)
(* fixed width; hash("") is 0 whatever the seed.                           *)
(***************************************************************************)
Alphabet == "abcdefghijklmnopqrstuvwxyz -"

OrdTab ==
    [c \in {SubSeq(Alphabet, i, i) : i \in 1..Len(Alphabet)} |->
        CHOOSE i \in 1..Len(Alphabet) : SubSeq(Alphabet, i, i) = c]

Ord(c) == IF c \in DOMAIN OrdTab THEN OrdTab[c] ELSE 0

\* the sum over the characters of s, the first of them at position first, of the
\* character's code weighted by a seed-dependent function of its position
RECURSIVE HashSum(_, _, _)
HashSum(s, first, seed) ==
    IF s = "" THEN 0
    ELSE IF Len(s) = 1 THEN Ord(s) * (seed * first + 1)
    ELSE LET mid == Len(s) \div 2
         IN  HashSum(SubSeq(s, 1, mid), first, seed)
             + HashSum(SubSeq(s, mid + 1, Len(s)), first + mid, seed)

HashValue(s, seed) == IF s = "" THEN 0 ELSE HashSum(s, 1, seed) % HashMod

\* HashValue of the fingerprints of the corpus, tabulated once
CorpusFingerprints ==
    {Take(Get(Corpus[i], "text", ""), FingerprintLen) : i \in 1..Len(Corpus)}

HashTable == [seed \in HashSeeds |-> [s \in CorpusFingerprints |-> HashValue(s, seed)]]

PyHash(s, seed) ==
    IF seed \in HashSeeds /\ s \in CorpusFingerprints
    THEN HashTable[seed][s]
    ELSE HashValue(s, seed)

(***************************************************************************)
(* _deduplicate_results                                                    *)
(***************************************************************************)
\* lines 130-139: the loop that fills unique, seen being seen_texts
RECURSIVE UniqueLoop(_, _, _, _)
UniqueLoop(results, seen, unique, seed) ==
    IF results = <<>> THEN unique
    ELSE LET result == Head(results)
             text == Get(result, "text", "")
             text_hash == PyHash(Take(text, FingerprintLen), seed)
         IN  IF text_hash \notin seen
             THEN UniqueLoop(Tail(results), seen \cup {text_hash},
                             Append(unique, result), seed)
             ELSE UniqueLoop(Tail(results), seen, unique, seed)

\* the sort key: x.get('score', 0)
SortKey(x) == Get(x, "score", 0)

\* one step of a stable descending sort: x goes behind every element whose key is
\* at least its own
InsertDescUnstable(sorted, x) ==
    LET ahead == SelectSeq(sorted, LAMBDA y : SortKey(y) > SortKey(x))
        behind == SelectSeq(sorted, LAMBDA y : SortKey(y) <= SortKey(x))
    IN  ahead \o <<x>> \o behind

InsertDesc(sorted, x) ==
    LET ahead == SelectSeq(sorted, LAMBDA y : SortKey(y) >= SortKey(x))
        behind == SelectSeq(sorted, LAMBDA y : SortKey(y) < SortKey(x))
    IN  ahead \o <<x>> \o behind

RECURSIVE SortLoop(_, _)
SortLoop(rest, sorted) ==
    IF rest = <<>> THEN sorted ELSE SortLoop(Tail(rest), InsertDesc(sorted, Head(rest)))

\* line 142: unique.sort(key=..., reverse=True)
SortByScoreDesc(unique) == SortLoop(unique, <<>>)

DeduplicateResults(results, seed) == SortByScoreDesc(UniqueLoop(results, {}, <<>>, seed))

(***************************************************************************)
(* _synthesize_context                                                     *)
(***************************************************************************)
Sentinel == "No relevant documentation found."

\* f"{score:.2f}" for a score in thousandths
Format2f(score) ==
    LET magnitude == IF score < 0 THEN -score ELSE score
        hundredths == (magnitude + 5) \div 10
        frac == hundredths % 100
    IN  (IF score < 0 THEN "-" ELSE "") \o ToString(hundredths \div 100) \o "."
        \o (IF frac < 10 THEN "0" ELSE "") \o ToString(frac)

\* line 169
ContextPart(i, doc) ==
    "[Document " \o ToString(i) \o ", relevance: " \o Format2f(Get(doc, "score", 0))
    \o "]\n" \o Take(Get(doc, "text", ""), SynthesisChars) \o "..."

\* sep.join(parts)
RECURSIVE Join(_, _)
Join(parts, sep) ==
    IF parts = <<>> THEN ""
    ELSE IF Len(parts) = 1 THEN Head(parts)
    ELSE Head(parts) \o sep \o Join(Tail(parts), sep)

SynthesizeContextAllDocs(results) ==
    IF results = <<>> THEN Sentinel
    ELSE Join([i \in 1..Len(results) |-> ContextPart(i, results[i])], "\n\n")

SynthesizeContext(results) ==
    IF results = <<>> THEN Sentinel
    ELSE LET top_docs == Take(results, SynthesisDocs)
             context_parts == [i \in 1..Len(top_docs) |-> ContextPart(i, top_docs[i])]
         IN  Join(context_parts, "\n\n")

(***************************************************************************)
(* retrieve_bug_context                                                    *)
(***************************************************************************)
\* line 50, and line 52 when the call raised: what all_results becomes
AccumulateOverwrite(all, outcome) == IF outcome.ok THEN outcome.docs ELSE all

Accumulate(all, outcome) == IF outcome.ok THEN all \o outcome.docs ELSE all

\* lines 60-64
ResultUncapped(unique, ctx) ==
    [retrieved_documents |-> unique,
     synthesized_context |-> ctx,
     total_documents_found |-> Len(unique)]

Result(unique, ctx) ==
    [retrieved_documents |-> Take(unique, MaxReturnedDocs),
     synthesized_context |-> ctx,
     total_documents_found |-> Len(unique)]

\* the bug_info values the retrieval runs are started with: they plan 1 to 5 queries
RetrievalBugInfos ==
    { [summary |-> "no analysis"],
      [bugs_found |-> <<>>],
      [bugs_found |-> <<[bug_type |-> "use-after-free",
                         description |-> "pointer freed then dereferenced in loop"]>>] }

Init ==
    /\ bug_info \in RetrievalBugInfos
    /\ hashSeed \in HashSeeds
    /\ pc = "plan"
    /\ kw = NoKeyword
    /\ queries = <<>>
    /\ searched = <<>>
    /\ outcomes = <<>>
    /\ all_results = <<>>
    /\ unique_results = <<>>
    /\ context = ""
    /\ ret = <<>>
    /\ IdleParser

\* lines 51-52: where control goes when the search call raised: the except clause
\* logs the error and the loop goes on
AfterSearchErrorPropagates == "raised"

AfterSearchError == "search"

\* one pass of the loop of lines 47-52 for the next query, the call having outcome o
SearchStep(o) ==
    /\ searched' = Append(searched, queries[Len(searched) + 1])
    /\ outcomes' = Append(outcomes, o)
    /\ all_results' = Accumulate(all_results, o)
    /\ pc' = IF o.ok THEN "search" ELSE AfterSearchError
    /\ UNCHANGED <<bug_info, hashSeed, kw, queries, unique_results, context, ret>>
    /\ UNCHANGED parserVars

\* lines 49-50: search_documents_sync returns h hits
SearchReturns ==
    /\ pc = "search"
    /\ Len(searched) < Len(queries)
    /\ \E h \in 0..MaxHits :
        SearchStep([ok |-> TRUE, docs |-> Window(Len(searched) + 1, h)])

\* lines 51-52: search_documents_sync raises; the error is logged
SearchFails ==
    /\ pc = "search"
    /\ Len(searched) < Len(queries)
    /\ SearchStep([ok |-> FALSE, docs |-> <<>>])

\* lines 54-64: the loop is over; deduplicate, synthesize, return
Finish ==
    /\ pc = "search"
    /\ Len(searched) = Len(queries)
    /\ LET unique == DeduplicateResults(all_results, hashSeed)
           ctx == SynthesizeContext(unique)
       IN  /\ unique_results' = unique
           /\ context' = ctx
           /\ ret' = Result(unique, ctx)
    /\ pc' = "done"
    /\ UNCHANGED <<bug_info, hashSeed, kw, queries, searched, outcomes, all_results>>
    /\ UNCHANGED parserVars

Next == Plan \/ SearchReturns \/ SearchFails \/ Finish

Spec == Init /\ [][Next]_vars

(***************************************************************************)
(* _deduplicate_results and _synthesize_context called on their own.       *)
(***************************************************************************)
DirectDocs == {DocUafA, DocUafB, DocDouble, DocLeak, DocNull, DocOverflow, DocNoText}

InitDirect ==
    /\ bug_info = [summary |-> "no analysis"]
    /\ hashSeed \in HashSeeds
    /\ pc = "call_dedup"
    /\ kw = NoKeyword
    /\ queries = <<>>
    /\ searched = <<>>
    /\ outcomes = <<>>
    /\ all_results \in SeqsUpTo(DirectDocs, MaxResults)
    /\ unique_results = <<>>
    /\ context = ""
    /\ ret = <<>>
    /\ IdleParser

\* unique_results = self._deduplicate_results(all_results)
CallDeduplicate ==
    /\ pc = "call_dedup"
    /\ unique_results' = DeduplicateResults(all_results, hashSeed)
    /\ pc' = "call_synth"
    /\ UNCHANGED <<bug_info, hashSeed, kw, queries, searched, outcomes, all_results,
                   context, ret>>
    /\ UNCHANGED parserVars

\* context = self._synthesize_context(unique_results)
CallSynthesize ==
    /\ pc = "call_synth"
    /\ context' = SynthesizeContext(unique_results)
    /\ pc' = "called"
    /\ UNCHANGED <<bug_info, hashSeed, kw, queries, searched, outcomes, all_results,
                   unique_results, ret>>
    /\ UNCHANGED parserVars

NextDirect == CallDeduplicate \/ CallSynthesize

SpecDirect == InitDirect /\ [][NextDirect]_vars

(***************************************************************************)
(* parse_code                                                              *)
(***************************************************************************)
\* Python values, tagged with their type
PyInt(n) == [type |-> "int", value |-> n]

PyStr(s) == [type |-> "str", value |-> s]

PyList(l) == [type |-> "list", value |-> l]

PyDict(d) == [type |-> "dict", value |-> d]

GoodJson ==
    "{\"functions\": [\"main\"], \"variables\": [\"p\"], \"line_count\": 3, "
    \o "\"complexity\": \"low\", \"potential_issues\": [], \"code_summary\": \"frees p\"}"

BadComplexityJson ==
    "{\"functions\": [], \"variables\": [], \"line_count\": 3, "
    \o "\"complexity\": \"extreme\", \"potential_issues\": [], \"code_summary\": \"\"}"

BadLineCountJson ==
    "{\"functions\": [], \"variables\": [], \"line_count\": \"three\", "
    \o "\"complexity\": \"high\", \"potential_issues\": [], \"code_summary\": \"\"}"

\* json.loads on the JSON texts of the model; any other text of the model is not JSON
JsonTable ==
    (GoodJson :>
        PyDict([functions |-> PyList(<<PyStr("main")>>),
                variables |-> PyList(<<PyStr("p")>>),
                line_count |-> PyInt(3),
                complexity |-> PyStr("low"),
                potential_issues |-> PyList(<<>>),
                code_summary |-> PyStr("frees p")]))
    @@ (BadComplexityJson :>
        PyDict([functions |-> PyList(<<>>),
                variables |-> PyList(<<>>),
                line_count |-> PyInt(3),
                complexity |-> PyStr("extreme"),
                potential_issues |-> PyList(<<>>),
                code_summary |-> PyStr("")]))
    @@ (BadLineCountJson :>
        PyDict([functions |-> PyList(<<>>),
                variables |-> PyList(<<>>),
                line_count |-> PyStr("three"),
                complexity |-> PyStr("high"),
                potential_issues |-> PyList(<<>>),
                code_summary |-> PyStr("")]))
    @@ ("{}" :> PyDict(<<>>))
    @@ ("[]" :> PyList(<<>>))
    @@ ("42" :> PyInt(42))

NotJson ==
    {"not json at all", "", "{\"functions\": [", "json", "{'functions': []}",
     "Here is the analysis: {}"}

\* json.loads(s): the decoded value, or JSONDecodeError
JsonLoads(s) ==
    IF s \in DOMAIN JsonTable
    THEN [ok |-> TRUE, value |-> JsonTable[s]]
    ELSE [ok |-> FALSE, value |-> PyStr("JSONDecodeError")]

\* the backquote character, written ~ in this module: no other text of the model
\* contains ~
Backquote == "~"

\* the code-fence marker, three backquotes
Fence == Backquote \o Backquote \o Backquote

\* lines 60-67
StripFences(resp) ==
    LET r1 == Strip(resp)
        r2 == IF StartsWith(r1, Fence \o "json") THEN Drop(r1, 7) ELSE r1
        r3 == IF StartsWith(r2, Fence) THEN Drop(r2, 3) ELSE r2
        r4 == IF EndsWith(r3, Fence) THEN SubSeq(r3, 1, Len(r3) - 3) ELSE r3
    IN  Strip(r4)

\* s.split(sep) for a one-character sep
RECURSIVE Split(_, _, _)
Split(s, sep, piece) ==
    IF s = "" THEN <<piece>>
    ELSE IF Head(s) = sep THEN <<piece>> \o Split(Tail(s), sep, "")
    ELSE Split(Tail(s), sep, piece \o Head(s))

\* lines 75-82
FallbackRecord(line_count) ==
    PyDict([functions |-> PyList(<<>>),
            variables |-> PyList(<<>>),
            line_count |-> PyInt(line_count),
            complexity |-> PyStr("unknown"),
            potential_issues |-> PyList(<<>>),
            code_summary |-> PyStr("Unable to parse code structure")])

\* lines 60-82: the value parse_code returns when the call returned resp
ParseResponseCountsResponse(src, resp) ==
    LET loaded == JsonLoads(StripFences(resp))
    IN  IF loaded.ok THEN loaded.value
        ELSE FallbackRecord(Len(Split(resp, "\n", "")))

ParseResponse(src, resp) ==
    LET loaded == JsonLoads(StripFences(resp))
    IN  IF loaded.ok THEN loaded.value
        ELSE FallbackRecord(Len(Split(src, "\n", "")))

Codes == {"", "int x;", "int *p;\nfree(p);", "a\nb\nc\n", "\n\n"}

ResponsePrefixes ==
    {"", Fence \o "json\n", Fence \o "\n", Fence \o "json" \o Fence, "  \n",
     Fence \o " json\n"}

ResponseSuffixes == {"", "\n" \o Fence, Fence \o "\n ", "\n" \o Fence \o " done"}

Responses ==
    {pre \o body \o suf :
        pre \in ResponsePrefixes, body \in DOMAIN JsonTable \cup NotJson,
        suf \in ResponseSuffixes}

IdleRetrieval ==
    /\ bug_info = [summary |-> "no analysis"]
    /\ hashSeed = 1
    /\ pc = "idle"
    /\ kw = NoKeyword
    /\ queries = <<>>
    /\ searched = <<>>
    /\ outcomes = <<>>
    /\ all_results = <<>>
    /\ unique_results = <<>>
    /\ context = ""
    /\ ret = <<>>

InitParse ==
    /\ IdleRetrieval
    /\ code \in Codes
    /\ response \in Responses
    /\ ppc = "call"
    /\ parsed = <<>>

\* lines 51-82: invoke_with_template returned response
ParseCode ==
    /\ ppc = "call"
    /\ parsed' = ParseResponse(code, response)
    /\ ppc' = "returned"
    /\ UNCHANGED <<code, response>>
    /\ UNCHANGED retrievalVars

\* lines 83-85: invoke_with_template raised; the error is logged and raised again
ParseCodeInvokeRaises ==
    /\ ppc = "call"
    /\ ppc' = "raised"
    /\ UNCHANGED <<code, response, parsed>>
    /\ UNCHANGED retrievalVars

NextParse == ParseCode \/ ParseCodeInvokeRaises

SpecParse == InitParse /\ [][NextParse]_vars

(***************************************************************************)
(* Properties of retrieve_bug_context, checked under Spec.                 *)
(***************************************************************************)
AllSearchesFailed == \A i \in 1..Len(outcomes) : ~outcomes[i].ok

SomeSearchFailed == \E i \in 1..Len(outcomes) : ~outcomes[i].ok

\* C1: when every search call raised, retrieve_bug_context does not raise and
\* returns no documents, total_documents_found = 0 and the sentinel text.
C1_TotalFailure ==
    /\ pc # "raised"
    /\ (pc = "done" /\ AllSearchesFailed) =>
          /\ ret.retrieved_documents = <<>>
          /\ ret.total_documents_found = 0
          /\ ret.synthesized_context = "No relevant documentation found."

C1_Witness ==
    /\ pc = "done"
    /\ Len(outcomes) = MaxQueries
    /\ AllSearchesFailed

\* the result lists of the calls that returned, one after the other in call order
RECURSIVE SuccessfulHits(_)
SuccessfulHits(os) ==
    IF os = <<>> THEN <<>>
    ELSE LET last == os[Len(os)]
             before == SuccessfulHits(SubSeq(os, 1, Len(os) - 1))
         IN  IF last.ok THEN before \o last.docs ELSE before

\* C2: whatever calls fail, every planned query is searched once, in plan order; a
\* failed call adds no document; the list given to deduplication is the
\* concatenation, in query order, of the result lists of the calls that returned.
C2_ContinueOnError ==
    /\ pc \in {"plan", "search", "done"}
    /\ pc \in {"search", "done"} =>
          /\ Len(searched) <= Len(queries)
          /\ \A i \in 1..Len(searched) : searched[i] = queries[i]
          /\ Len(outcomes) = Len(searched)
          /\ all_results = SuccessfulHits(outcomes)
    /\ pc = "done" => searched = queries

C2_Witness ==
    /\ pc = "done"
    /\ Len(queries) = MaxQueries
    /\ ~outcomes[1].ok
    /\ outcomes[2].ok /\ outcomes[2].docs # <<>>
    /\ ~outcomes[3].ok
    /\ outcomes[5].ok /\ outcomes[5].docs # <<>>

ScoreOf(doc) == IF "score" \in DOMAIN doc THEN doc.score ELSE 0

TextOf(doc) == IF "text" \in DOMAIN doc THEN doc.text ELSE ""

Fingerprint(doc) ==
    IF Len(TextOf(doc)) <= 200 THEN TextOf(doc) ELSE SubSeq(TextOf(doc), 1, 200)

\* C3: retrieved_documents has at most 5 documents, is sorted by score,
\* non-increasing, and holds no two documents with the same first 200 characters.
C3_ReturnedDocuments ==
    pc = "done" =>
        LET docs == ret.retrieved_documents
        IN  /\ Len(docs) <= 5
            /\ \A i, j \in 1..Len(docs) : i < j => ScoreOf(docs[i]) >= ScoreOf(docs[j])
            /\ \A i, j \in 1..Len(docs) :
                   i # j => Fingerprint(docs[i]) # Fingerprint(docs[j])

C3_Witness ==
    /\ pc = "done"
    /\ Len(unique_results) > 5
    /\ Len(all_results) > Len(unique_results)
    /\ SomeSearchFailed

(***************************************************************************)
(* Properties of _generate_search_queries, checked under SpecPlan.         *)
(***************************************************************************)
\* C5: the planner returns 1 to 5 queries and none of them is the empty string,
\* whatever the keyword call does.
C5_QueriesNonEmpty ==
    pc = "search" =>
        /\ Len(queries) >= 1
        /\ Len(queries) <= 5
        /\ \A i \in 1..Len(queries) : queries[i] # ""

Present(bug, field) == field \in DOMAIN bug /\ bug[field] # ""

\* the queries the claim derives from the first three bugs, last bug first
RECURSIVE ExpectedFromBugs(_, _)
ExpectedFromBugs(bugs, n) ==
    IF n = 0 THEN <<>>
    ELSE LET bug == bugs[n]
             d == IF Present(bug, "description") THEN bug.description ELSE ""
         IN  ExpectedFromBugs(bugs, n - 1)
             \o (IF Present(bug, "bug_type")
                 THEN <<"C++ " \o bug.bug_type, bug.bug_type \o " bug example">>
                 ELSE <<>>)
             \o (IF Present(bug, "description")
                 THEN <<IF Len(d) > 100 THEN SubSeq(d, 1, 100) ELSE d>>
                 ELSE <<>>)

BugsGiven == IF "bugs_found" \in DOMAIN bug_info THEN bug_info.bugs_found ELSE <<>>

BugDerived == ExpectedFromBugs(BugsGiven, IF Len(BugsGiven) < 3 THEN Len(BugsGiven) ELSE 3)

\* C6: the result is the first 5 of: the bug-derived queries of the first 3 bugs,
\* the generic query, the keyword query if the keyword call returned.  One bug with
\* both fields and a failed keyword call give the 4 queries of the scenario; the
\* generic query is absent once the bug-derived queries number 5 or more.
C6_FirstFiveCandidates ==
    pc = "search" =>
        LET candidates ==
                BugDerived \o <<"C++ common bugs">>
                \o (IF kw.ok THEN <<Strip(kw.text)>> ELSE <<>>)
            n == IF Len(candidates) < 5 THEN Len(candidates) ELSE 5
        IN  /\ queries = [i \in 1..n |-> candidates[i]]
            /\ (BugsGiven = <<[bug_type |-> "use-after-free",
                               description |-> "pointer freed then dereferenced in loop"]>>
                /\ ~kw.ok)
               => queries = <<"C++ use-after-free", "use-after-free bug example",
                              "pointer freed then dereferenced in loop",
                              "C++ common bugs">>
            /\ Len(BugDerived) >= 5
               => \A i \in 1..Len(queries) : queries[i] # "C++ common bugs"

C6_Witness ==
    /\ pc = "search"
    /\ kw.ok
    /\ Len(BugsGiven) > 3
    /\ Len(BugDerived) >= 5
    /\ Len(queries) = 5

(***************************************************************************)
(* Properties of _deduplicate_results and _synthesize_context, checked     *)
(* under SpecDirect.                                                       *)
(***************************************************************************)
Deduplicated == pc \in {"call_synth", "called"}

FirstWithFingerprint(i) ==
    \A j \in 1..(i - 1) : Fingerprint(all_results[j]) # Fingerprint(all_results[i])

FirstWithHash(i) ==
    \A j \in 1..(i - 1) :
        PyHash(Fingerprint(all_results[j]), hashSeed)
            # PyHash(Fingerprint(all_results[i]), hashSeed)

\* the position in the input of the first document equal to doc
FirstIndex(doc) ==
    CHOOSE i \in 1..Len(all_results) :
        /\ all_results[i] = doc
        /\ \A j \in 1..(i - 1) : all_results[j] # doc

\* C9: the ranked output is a permutation of the deduplicated documents, is
\* non-increasing in score, keeps documents of equal score in discovery order, and
\* places a document without a score as if its score were 0.
C9_StableRanking ==
    Deduplicated =>
        /\ {unique_results[k] : k \in 1..Len(unique_results)}
              = {all_results[i] : i \in {n \in 1..Len(all_results) : FirstWithHash(n)}}
        /\ \A i, j \in 1..Len(unique_results) :
              i < j =>
                  /\ unique_results[i] # unique_results[j]
                  /\ \/ ScoreOf(unique_results[i]) > ScoreOf(unique_results[j])
                     \/ /\ ScoreOf(unique_results[i]) = ScoreOf(unique_results[j])
                        /\ FirstIndex(unique_results[i]) < FirstIndex(unique_results[j])

C9_Witness ==
    /\ Deduplicated
    /\ Len(unique_results) = 4
    /\ \E i, j \in 1..Len(all_results) :
          /\ i < j
          /\ all_results[i] = DocLeak
          /\ all_results[j] = DocDouble
    /\ \E k \in 2..3 :
          /\ "score" \notin DOMAIN unique_results[k]
          /\ ScoreOf(unique_results[k - 1]) > 0
          /\ ScoreOf(unique_results[k + 1]) < 0

\* the block the claim describes for the document at position i of the ranking
ExpectedBlock(i) ==
    LET doc == unique_results[i]
        shown == IF Len(TextOf(doc)) > 300 THEN SubSeq(TextOf(doc), 1, 300) ELSE TextOf(doc)
    IN  "[Document " \o ToString(i) \o ", relevance: " \o Format2f(ScoreOf(doc)) \o "]\n"
        \o shown \o "..."

\* length of the longest label the scores of the model give,
\* "[Document 3, relevance: -0.50]" and a newline
MaxLabelLen == Len("[Document 3, relevance: -0.50]\n")

\* C10: for no documents the result is the sentinel; otherwise it is min(3, n)
\* blocks joined by a blank line, block i labelled i and carrying at most the first
\* 300 characters of the i-th document and the truncation marker; its length is
\* bounded whatever n and the text lengths are.
C10_Synthesis ==
    pc = "called" =>
        LET n == Len(unique_results)
        IN  /\ n = 0 => context = "No relevant documentation found."
            /\ n = 1 => context = ExpectedBlock(1)
            /\ n = 2 => context = ExpectedBlock(1) \o "\n\n" \o ExpectedBlock(2)
            /\ n >= 3 => context = ExpectedBlock(1) \o "\n\n" \o ExpectedBlock(2)
                                   \o "\n\n" \o ExpectedBlock(3)
            /\ Len(context) <= 3 * (MaxLabelLen + 300 + Len("...")) + 2 * Len("\n\n")

C10_Witness ==
    /\ pc = "called"
    /\ Len(unique_results) >= 4
    /\ \E i \in 1..3 : Len(TextOf(unique_results[i])) > 300

(***************************************************************************)
(* Properties of parse_code, checked under SpecParse.                      *)
(***************************************************************************)
RecordFields ==
    {"functions", "variables", "line_count", "complexity", "potential_issues",
     "code_summary"}

WellFormedRecord(v) ==
    /\ v.type = "dict"
    /\ RecordFields \subseteq DOMAIN v.value
    /\ v.value.line_count.type = "int"
    /\ v.value.line_count.value >= 0
    /\ v.value.complexity.type = "str"
    /\ v.value.complexity.value \in {"low", "medium", "high", "unknown"}

\* C7: whatever text the call returned, parse_code returns a record with all six
\* fields, an integer line_count >= 0 and a complexity among low, medium, high,
\* unknown.
C7_AlwaysWellFormed == ppc = "returned" => WellFormedRecord(parsed)

NewlineCount(s) == Cardinality({i \in 1..Len(s) : SubSeq(s, i, i) = "\n"})

\* C8: when the stripped response is not parseable, parse_code returns the fallback
\* record, whose line_count is the number of newline-delimited lines of the code
\* argument, whatever the response holds.
C8_FallbackRecord ==
    /\ (ppc = "returned" /\ StripFences(response) \notin DOMAIN JsonTable) =>
          parsed = [type |-> "dict",
                    value |->
                      [functions |-> [type |-> "list", value |-> <<>>],
                       variables |-> [type |-> "list", value |-> <<>>],
                       line_count |-> [type |-> "int", value |-> NewlineCount(code) + 1],
                       complexity |-> [type |-> "str", value |-> "unknown"],
                       potential_issues |-> [type |-> "list", value |-> <<>>],
                       code_summary |->
                          [type |-> "str", value |-> "Unable to parse code structure"]]]
    /\ (ppc = "returned" /\ response = "not json at all") =>
          parsed.value.complexity.value = "unknown"

C8_Witness ==
    /\ ppc = "returned"
    /\ response = "not json at all"
    /\ code = "int *p;\nfree(p);"
    /\ parsed.value.line_count.value = 2

====
